---- MODULE Spec2Model ----
(***************************************************************************)
(* MeshConverter: main.cpp (command line, Load, ExportMaterialYaml, Save)  *)
(* and MeshLoader.cpp (Load, ParseStaticMesh, ParseSkinningMesh).          *)
(*                                                                         *)
(* Floats are modelled by small naturals: a colour or texture coordinate   *)
(* h stands for h/2 (0, 0.5, 1.0), a bone weight w for w/20.  Strings are   *)
(* TLA+ strings, material names sequences of character codes.              *)
(***************************************************************************)
EXTENDS Integers, Sequences, FiniteSets, TLC

VARIABLES
    ndebug,         \* the build: TRUE when NDEBUG is defined and assert expands to nothing
    pc,             \* main: where the process is
    input,          \* main: std::string input
    output,         \* main: std::string output
    matyaml,        \* main: std::string matyaml
    exitCode,       \* the process's exit status: {} while it runs, then {status}
    returned,       \* main: what Load, ExportMaterialYaml and SaveModel returned
    files,          \* files written so far
    m_pScene,       \* MeshLoader::m_pScene
    meshI,          \* Load: loop index i
    pMesh,          \* Load: the source mesh of the current iteration
    model,          \* asdx::ResModel model
    vertex,         \* ParseSkinningMesh: dstMesh.Vertices during the bone loop
    boneI,          \* ParseSkinningMesh: bone loop index i
    weightJ,        \* ParseSkinningMesh: weight loop index j
    mNumBones,      \* ParseSkinningMesh: pSrcMesh->mNumBones
    mNumWeights,    \* ParseSkinningMesh: pSrcMesh->mBones[i]->mNumWeights
    weight,         \* ParseSkinningMesh: the local weight of the last iteration
    arrived,        \* history: the non-zero contributions each vertex has received
    skinned,        \* packing: TRUE in ParseSkinningMesh, FALSE in ParseStaticMesh
    dstMesh,        \* packing: dstMesh
    dstMeshIndices, \* packing: dstMeshIndices
    meshlets,       \* packing: the std::vector<meshopt_Meshlet>
    meshletI,       \* packing: position of the range-for over meshlets
    bounds          \* packing: the local bounds of the last iteration

mainVars == <<ndebug, pc, input, output, matyaml, exitCode, returned, files, m_pScene, meshI, pMesh, model>>
boneVars == <<vertex, boneI, weightJ, mNumBones, mNumWeights, weight, arrived>>
packVars == <<skinned, dstMesh, dstMeshIndices, meshlets, meshletI, bounds>>
vars == <<mainVars, boneVars, packVars>>

-----------------------------------------------------------------------------
(* Bounds of the model *)

MaxArgs == 6
MaxMeshes == 2
MaxVerts == 3
MaxFaces == 1
MaxSkinVerts == 2
MaxBones == 3
MaxWeights == 2
MaxWeight == 3
MaxTris == 2
BigUnindexed == 22
BigDense == 126
DenseStrip == 62

\* a null pointer to a string, to an object; an absent array is empty
NullString == "(null)"
NullObject == [null |-> TRUE]
NONE == "none"

Range(s) == {s[i] : i \in DOMAIN s}

Min(a, b) == IF a < b THEN a ELSE b

-----------------------------------------------------------------------------
(* asdx helpers the loader calls *)

\* A 32-bit word is the pair <<high 16 bits, low 16 bits>>.
WORD16 == 65536

RECURSIVE Xor(_, _, _)
Xor(a, b, bits) ==
    IF bits = 0 THEN 0
    ELSE ((a + b) % 2) + 2 * Xor(a \div 2, b \div 2, bits - 1)

\* FNV-1a, 32 bit: offset basis 0x811C9DC5, prime 0x01000193
FnvOffsetBasis == <<33052, 40389>>
FnvPrimeHi == 256
FnvPrimeLo == 403

\* (hash * prime) mod 2^32 on 16-bit halves
FnvMul(h) ==
    LET lo == h[2] * FnvPrimeLo
        hi == h[1] * FnvPrimeLo + h[2] * FnvPrimeHi + (lo \div WORD16)
    IN  <<hi % WORD16, lo % WORD16>>

RECURSIVE Fnv1aFrom(_, _)
Fnv1aFrom(hash, str) ==
    IF str = <<>> THEN hash
    ELSE Fnv1aFrom(FnvMul(<<hash[1], Xor(hash[2], Head(str), 16)>>), Tail(str))

\* asdx::Fnv1a(const char*).GetHash(): 32-bit FNV-1a of the name's bytes
Fnv1a(str) == Fnv1aFrom(FnvOffsetBasis, str)

\* a uint32_t holding a small number
Word(n) == <<0, n>>

\* one unorm8 / unorm16 channel of a float h/2 in [0,1]: round(x * max)
Unorm8(h) == (h * 255 + 1) \div 2
Unorm16(h) == (h * 65535 + 1) \div 2

\* asdx::ToUnorm(Vector4): 4 x unorm8 packed in a word, written channel by channel
ToUnorm(c) == <<Unorm8(c[1]), Unorm8(c[2]), Unorm8(c[3]), Unorm8(c[4])>>

\* asdx::EncodeTexCoord(Vector2): 2 x unorm16 packed in a word, written channel by channel
EncodeTexCoord(uv) == <<Unorm16(uv[1]), Unorm16(uv[2])>>

\* asdx::EncodeTBN(N, T, 0): the packed word is a function of the encoder's arguments
EncodeTBN(N, T, flip) == <<"TBN", N, T, flip>>

-----------------------------------------------------------------------------
(* The imported scene (Assimp) *)

zero3D == <<0, 0, 0>>
\* a default colour that is not white: transparent black
black == <<0, 0, 0, 0>>
white == <<2, 2, 2, 2>>

\* sample attribute values of a source vertex
SrcNormal == <<0, 0, 2>>
SrcTangent == <<2, 0, 0>>
SrcTexCoord == <<1, 2, 0>>
SrcColor == <<2, 0, 1, 2>>

\* m_pScene->mMaterials: material 0 has the name "a", material 1 has no name
SceneMaterials == << [hasName |-> TRUE, name |-> <<97>>], [hasName |-> FALSE, name |-> <<>>] >>

\* the faces of a sample mesh: face f has corners f, f+1, f+2 (mod nv)
SampleFaces(nv, nf) ==
    [f \in 1..nf |-> [mNumIndices |-> 3,
                      mIndices |-> <<(f - 1) % nv, f % nv, (f + 1) % nv>>]]

\* an aiMesh: nv vertices (all at one position when dup), optional colour
\* set 0, optional texcoord channel 0 (tangents come with it), nf faces
MakeMesh(nv, dup, hasColors, hasUV, nf, bones, mat) ==
    [mNumVertices |-> nv,
     mVertices |-> [i \in 1..nv |-> IF dup THEN <<0, 0, 0>> ELSE <<i, 0, 0>>],
     mNormals |-> [i \in 1..nv |-> SrcNormal],
     mTextureCoords |-> [c \in 0..3 |-> IF c = 0 /\ hasUV THEN [i \in 1..nv |-> SrcTexCoord] ELSE <<>>],
     mTangents |-> IF hasUV THEN [i \in 1..nv |-> SrcTangent] ELSE <<>>,
     mColors |-> IF hasColors THEN [i \in 1..nv |-> SrcColor] ELSE <<>>,
     mNumFaces |-> nf,
     mFaces |-> SampleFaces(nv, nf),
     mNumBones |-> Len(bones),
     mBones |-> bones,
     mMaterialIndex |-> mat]

\* aiMesh::HasTextureCoords(c), HasTangentsAndBitangents(), HasVertexColors(0):
\* the array is there and the mesh has vertices
HasTextureCoords(mesh, c) == mesh.mTextureCoords[c] # <<>>
HasTangentsAndBitangents(mesh) == mesh.mTangents # <<>>
HasVertexColors(mesh) == mesh.mColors # <<>>
HasBones(mesh) == mesh.mNumBones > 0

\* sample bone lists of a skinned mesh with nv vertices
SampleBones(nv) ==
    { << <<[mVertexId |-> 0, mWeight |-> 20]>> >>,
      << <<[mVertexId |-> 0, mWeight |-> 10]>>,
         <<[mVertexId |-> nv - 1, mWeight |-> 10], [mVertexId |-> 0, mWeight |-> 6]>> >> }

\* a mesh without vertices has no faces
FaceCounts(nv) == IF nv = 0 THEN {0} ELSE 0..MaxFaces

SampleStaticMeshes ==
    UNION { { MakeMesh(nv, dup, hasColors, hasUV, nf, <<>>, mat) :
                dup \in BOOLEAN, hasColors \in BOOLEAN, hasUV \in BOOLEAN,
                nf \in FaceCounts(nv), mat \in {0, 1} } :
            nv \in 0..MaxVerts }

SampleSkinnedMeshes ==
    UNION { { MakeMesh(nv, FALSE, hasColors, TRUE, MaxFaces, bones, 0) :
                hasColors \in BOOLEAN, bones \in SampleBones(nv) } :
            nv \in 1..MaxVerts }

\* the mesh with its first face replaced by one with the given corners
WithFace(mesh, corners) ==
    [mesh EXCEPT !.mFaces[1] = [mNumIndices |-> Len(corners), mIndices |-> corners]]

\* meshes whose first face is a line or a quad, without and with bones
NonTriangleMeshes ==
    { WithFace(MakeMesh(MaxVerts, FALSE, TRUE, TRUE, MaxFaces, bones, 0), corners) :
        corners \in {<<0, 1>>, <<0, 1, 2, 0>>},
        bones \in {<<>>, << <<[mVertexId |-> 0, mWeight |-> 20]>> >>} }

\* the meshes a scene is made of
SceneMeshes == SampleStaticMeshes \cup SampleSkinnedMeshes \cup NonTriangleMeshes

-----------------------------------------------------------------------------
(* MeshLoader.cpp: the steps of ParseStaticMesh and ParseSkinningMesh *)

\* the value of a member no statement assigns (indeterminate)
Indeterminate == {Word(0), <<52685, 52685>>}

\* asdx::ResStaticMesh / asdx::ResSkinningMesh dstMesh; as declared.  The
\* material hash is a member of the record that no statement assigns, and no
\* statement stores a culling descriptor in it.
NewMesh(garbage) ==
    [MaterialHash |-> garbage,
     Vertices |-> <<>>,
     Indices |-> <<>>,
     Primitives |-> <<>>,
     Meshlets |-> <<>>,
     CullingInfos |-> <<>>]

\* the local matHash of both parsers
MatHash(scene, mesh) ==
    LET matId == mesh.mMaterialIndex
        pMaterial == scene.mMaterials[matId + 1]
    IN  IF pMaterial.hasName THEN Fnv1a(pMaterial.name) ELSE Word(matId)

\* one iteration of the vertex loop of ParseStaticMesh (i is 1-based here)
EncodeVertex(mesh, i) ==
    LET pPosition == mesh.mVertices[i]
        pNormal == mesh.mNormals[i]
        pTexCoord(c) == IF HasTextureCoords(mesh, c) THEN mesh.mTextureCoords[c][i] ELSE zero3D
        pTangent == IF HasTangentsAndBitangents(mesh) THEN mesh.mTangents[i] ELSE zero3D
        pColor == IF HasVertexColors(mesh) THEN mesh.mColors[i] ELSE white
    IN  [Position |-> pPosition,
         TexCoord0 |-> EncodeTexCoord(pTexCoord(0)),
         TexCoord1 |-> EncodeTexCoord(pTexCoord(1)),
         TexCoord2 |-> EncodeTexCoord(pTexCoord(2)),
         TexCoord3 |-> EncodeTexCoord(pTexCoord(3)),
         TangentSpace |-> EncodeTBN(pNormal, pTangent, 0),
         Color |-> ToUnorm(pColor)]

\* one iteration of the vertex loop of ParseSkinningMesh
EncodeSkinningVertex(mesh, i) ==
    LET v == EncodeVertex(mesh, i)
    IN  [Position |-> v.Position,
         TexCoord0 |-> v.TexCoord0,
         TexCoord1 |-> v.TexCoord1,
         TexCoord2 |-> v.TexCoord2,
         TexCoord3 |-> v.TexCoord3,
         TangentSpace |-> v.TangentSpace,
         Color |-> v.Color,
         BoneIndex |-> <<0, 0, 0, 0>>,
         BoneWeights |-> <<0, 0, 0, 0>>]

EncodeVertices(mesh, isSkinning) ==
    [i \in 1..mesh.mNumVertices |->
        IF isSkinning THEN EncodeSkinningVertex(mesh, i) ELSE EncodeVertex(mesh, i)]

\* the slot the replacement branch picks: strict comparisons, scanning x, y, z, w
MinSlot(W) ==
    LET s1 == IF W[1] > W[2] THEN 2 ELSE 1
        s2 == IF W[s1] > W[3] THEN 3 ELSE s1
        s3 == IF W[s2] > W[4] THEN 4 ELSE s2
    IN  s3

\* the body of the weight loop for one (boneIndex, boneWeight) on one vertex;
\* slots x, y, z, w are 1..4 here
AssignBone(v, boneIndex, boneWeight) ==
    LET W == v.BoneWeights
    IN  IF W[1] = 0
        THEN [v EXCEPT !.BoneIndex[1] = boneIndex, !.BoneWeights[1] = boneWeight]
        ELSE IF W[2] = 0
        THEN [v EXCEPT !.BoneIndex[2] = boneIndex, !.BoneWeights[2] = boneWeight]
        ELSE IF W[3] = 0
        THEN [v EXCEPT !.BoneIndex[3] = boneIndex, !.BoneWeights[3] = boneWeight]
        ELSE IF W[4] = 0
        THEN [v EXCEPT !.BoneIndex[4] = boneIndex, !.BoneWeights[3] = boneWeight]
        ELSE LET idx == MinSlot(W)
                 mini == W[idx]
             IN  IF mini > boneWeight
                 THEN v
                 ELSE [v EXCEPT !.BoneIndex[idx] = boneIndex, !.BoneWeights[idx] = boneWeight]

\* uint16_t(i)
BoneIndexOf(i) == i % 65536

\* the weight loop of bone i (0-based) from entry j (1-based) on
RECURSIVE WeightLoop(_, _, _, _)
WeightLoop(vertices, bone, i, j) ==
    IF j > Len(bone) THEN vertices
    ELSE LET id == bone[j].mVertexId + 1
             boneWeight == bone[j].mWeight
         IN  WeightLoop([vertices EXCEPT ![id] = AssignBone(@, BoneIndexOf(i), boneWeight)],
                        bone, i, j + 1)

\* the bone loop from bone i (0-based) on
RECURSIVE BoneLoop(_, _, _)
BoneLoop(vertices, bones, i) ==
    IF i >= Len(bones) THEN vertices
    ELSE BoneLoop(WeightLoop(vertices, bones[i + 1], i, 1), bones, i + 1)

\* the face loop: dstMeshIndices
AllTriangles(mesh) == \A f \in DOMAIN mesh.mFaces : mesh.mFaces[f].mNumIndices = 3

\* what a read of face.mIndices past the face's corners may give
StrayIndices(mesh) == IF AllTriangles(mesh) THEN {0} ELSE 0..(mesh.mNumVertices - 1)

FlattenFaces(mesh, stray) ==
    [k \in 1..(mesh.mNumFaces * 3) |->
        LET face == mesh.mFaces[((k - 1) \div 3) + 1]
            c == ((k - 1) % 3) + 1
        IN  IF c <= face.mNumIndices THEN face.mIndices[c] ELSE stray]

\* std::vector::resize(n) of a vector the optimizer filled up to its old size
Resize(s, n) == IF n <= Len(s) THEN SubSeq(s, 1, n) ELSE s \o [k \in 1..(n - Len(s)) |-> 0]

\* meshopt_generateVertexRemap's result: the unique vertices the indices refer to
UniqueVertexCount(indices, vertices) ==
    Cardinality({vertices[indices[k] + 1] : k \in DOMAIN indices})

\* The optimisation block.  remap and indices are sized by dstMesh.Indices,
\* which is still empty, and the optimizer writes one entry per vertex and
\* per index into them: a write past the end whenever there is a vertex or
\* an index.  Where the run goes on, vertices has vertexCount entries,
\* dstMeshIndices is resized to indices.size(), and the cache and fetch
\* passes run over indices.size() indices.
Optimize(dst, indices) ==
    LET remapSize == Len(dst.Indices)
        vertexCount == UniqueVertexCount(indices, dst.Vertices)
        indicesSize == Len(dst.Indices)
    IN  [overflow |-> Len(dst.Vertices) > remapSize \/ Len(indices) > indicesSize,
         Vertices |-> Resize(dst.Vertices, vertexCount),
         dstMeshIndices |-> Resize(indices, indicesSize)]

-----------------------------------------------------------------------------
(* Meshlet generation *)

kMaxVertices == 64
kMaxPrimitives == 124

\* meshopt_buildMeshletsBound(index_count, max_vertices, max_triangles)
meshopt_buildMeshletsBound(index_count, max_vertices, max_triangles) ==
    LET max_vertices_conservative == max_vertices - 2
        meshlet_limit_vertices ==
            (index_count + max_vertices_conservative - 1) \div max_vertices_conservative
        meshlet_limit_triangles == ((index_count \div 3) + max_triangles - 1) \div max_triangles
    IN  IF meshlet_limit_vertices > meshlet_limit_triangles
        THEN meshlet_limit_vertices ELSE meshlet_limit_triangles

Triangles(indices) ==
    [t \in 1..(Len(indices) \div 3) |-> <<indices[3 * t - 2], indices[3 * t - 1], indices[3 * t]>>]

\* a meshopt_Meshlet holding the triangles of chunk: vertices lists the
\* vertices in order of first use, indices the corners as positions in it
MakeMeshlet(chunk) ==
    LET F == [k \in 1..(3 * Len(chunk)) |-> chunk[((k - 1) \div 3) + 1][((k - 1) % 3) + 1]]
        first == {k \in DOMAIN F : \A j \in 1..(k - 1) : F[j] # F[k]}
        rank(k) == Cardinality({j \in first : j <= k})
        vertices == [r \in 1..Cardinality(first) |-> F[CHOOSE k \in first : rank(k) = r]]
        local(v) == (CHOOSE r \in DOMAIN vertices : vertices[r] = v) - 1
    IN  [vertices |-> vertices,
         indices |-> [t \in DOMAIN chunk |->
                        <<local(chunk[t][1]), local(chunk[t][2]), local(chunk[t][3])>>],
         triangle_count |-> Len(chunk),
         vertex_count |-> Len(vertices)]

\* the triangles cut into consecutive chunks of s (the last one shorter)
Chunks(tris, s) ==
    [k \in 1..((Len(tris) + s - 1) \div s) |->
        MakeMeshlet(SubSeq(tris, (k - 1) * s + 1, Min(k * s, Len(tris))))]

\* What meshopt_buildMeshlets may write to the destination: the triangles of
\* the index buffer, in order, in meshlets that keep to max_vertices and
\* max_triangles, no more of them than meshopt_buildMeshletsBound allots.
meshopt_buildMeshlets(indices, vertex_count, max_vertices, max_triangles) ==
    LET tris == Triangles(indices)
        bound == meshopt_buildMeshletsBound(Len(indices), max_vertices, max_triangles)
    IN  IF tris = <<>> THEN {<<>>}
        ELSE { ms \in { Chunks(tris, s) : s \in 1..Min(Len(tris), max_triangles) } :
                 /\ Len(ms) <= bound
                 /\ \A k \in DOMAIN ms : ms[k].vertex_count <= max_vertices }

\* the call with the two maxima in each other's place
BuildMeshletsSwapped(indices, vertex_count) ==
    meshopt_buildMeshlets(indices, vertex_count, kMaxPrimitives, kMaxVertices)

\* the meshlets the parsers get for dstMeshIndices
BuildMeshlets(indices, vertex_count) ==
    meshopt_buildMeshlets(indices, vertex_count, kMaxVertices, kMaxPrimitives)

\* meshopt_computeMeshletBounds(&meshlet, ...): sphere and cone of the meshlet
meshopt_computeMeshletBounds(meshlet) == [of |-> meshlet.vertices]

\* a primitive that keeps the meshlet's corner order
MakePrimitiveUnswapped(meshlet, i) ==
    [Index0 |-> meshlet.indices[i][1],
     Index1 |-> meshlet.indices[i][2],
     Index2 |-> meshlet.indices[i][3]]

\* the primitive of triangle i (1-based) of a meshlet
MakePrimitive(meshlet, i) ==
    [Index1 |-> meshlet.indices[i][1],
     Index0 |-> meshlet.indices[i][2],
     Index2 |-> meshlet.indices[i][3]]

\* the iteration with both offsets taken from Indices
PackMeshletOneOffset(dst, meshlet) ==
    LET vertexOffset == Len(dst.Indices)
        m == [VertexCount |-> meshlet.vertex_count,
              VertexOffset |-> vertexOffset,
              PrimitiveCount |-> meshlet.triangle_count,
              PrimitiveOffset |-> vertexOffset]
    IN  [dst EXCEPT
            !.Indices = @ \o [i \in 1..meshlet.vertex_count |-> meshlet.vertices[i]],
            !.Primitives = @ \o [i \in 1..meshlet.triangle_count |-> MakePrimitive(meshlet, i)],
            !.Meshlets = Append(@, m)]

\* one iteration of the loop over meshlets
PackMeshlet(dst, meshlet) ==
    LET vertexOffset == Len(dst.Indices)
        primitiveOffset == Len(dst.Primitives)
        m == [VertexCount |-> meshlet.vertex_count,
              VertexOffset |-> vertexOffset,
              PrimitiveCount |-> meshlet.triangle_count,
              PrimitiveOffset |-> primitiveOffset]
    IN  [dst EXCEPT
            !.Indices = @ \o [i \in 1..meshlet.vertex_count |-> meshlet.vertices[i]],
            !.Primitives = @ \o [i \in 1..meshlet.triangle_count |-> MakePrimitive(meshlet, i)],
            !.Meshlets = Append(@, m)]

\* the loop over meshlets from position k (1-based) on
RECURSIVE PackMeshlets(_, _, _)
PackMeshlets(dst, ms, k) ==
    IF k > Len(ms) THEN dst ELSE PackMeshlets(PackMeshlet(dst, ms[k]), ms, k + 1)

\* the push with the two lists in each other's place
PushMeshSwapped(mdl, dst, isSkinning) ==
    IF isSkinning
    THEN [mdl EXCEPT !.StaticMeshes = Append(@, dst)]
    ELSE [mdl EXCEPT !.SkinningMeshes = Append(@, dst)]

\* model.StaticMeshes.push_back(dstMesh) / model.SkinningMeshes.push_back(dstMesh)
PushMesh(mdl, dst, isSkinning) ==
    IF isSkinning
    THEN [mdl EXCEPT !.SkinningMeshes = Append(@, dst)]
    ELSE [mdl EXCEPT !.StaticMeshes = Append(@, dst)]

\* dstMesh and dstMeshIndices of either parser when the optimisation block is reached
BeforeOptimize(mesh, isSkinning, garbage, stray) ==
    LET encoded == EncodeVertices(mesh, isSkinning)
    IN  [dst |-> [NewMesh(garbage) EXCEPT
                    !.Vertices = IF isSkinning THEN BoneLoop(encoded, mesh.mBones, 0) ELSE encoded],
         indices |-> FlattenFaces(mesh, stray)]

-----------------------------------------------------------------------------
(* main.cpp *)

Options == {"-i", "-o", "-m"}
Tokens == Options \cup {"f"}

\* argv: the program name and up to MaxArgs arguments, where what follows an
\* option is a path
CommandLines ==
    { a \in UNION { [1..(n + 1) -> Tokens \cup {"exe"}] : n \in 0..MaxArgs } :
        /\ a[1] = "exe"
        /\ \A k \in 2..Len(a) : a[k] \in Tokens
        /\ \A k \in 2..(Len(a) - 1) : a[k] \in Options => a[k + 1] = "f" }

\* the option loop of main from i (0-based) on; argv[argc] is the null
\* pointer, and assigning it to a std::string is undefined
RECURSIVE ParseArgs(_, _, _)
ParseArgs(argv, i, st) ==
    LET argc == Len(argv)
        opt == argv[i + 1]
        field == CASE opt = "-i" -> "input"
                   [] opt = "-o" -> "output"
                   [] opt = "-m" -> "matyaml"
                   [] OTHER -> NONE
    IN  IF i >= argc THEN st
        ELSE IF field = NONE THEN ParseArgs(argv, i + 1, st)
        ELSE IF i + 1 >= argc THEN [st EXCEPT !.null = TRUE]
        ELSE ParseArgs(argv, i + 2, [st EXCEPT ![field] = argv[i + 2]])

\* the status of a process the system ends on an access violation
AccessViolation == {-1073741819}

NoResults == [Load |-> NONE, ExportMaterialYaml |-> NONE, SaveModel |-> NONE]

Crash ==
    /\ pc' = "crash"
    /\ exitCode' = AccessViolation

Exit(code) ==
    /\ pc' = "exit"
    /\ exitCode' = {code}

\* main up to the call of Load
Main ==
    /\ pc = "main"
    /\ \E argv \in CommandLines :
        LET argc == Len(argv)
            st == ParseArgs(argv, 0, [input |-> "", output |-> "", matyaml |-> "", null |-> FALSE])
        IN  IF argc <= 1
            THEN Exit(0) /\ UNCHANGED <<input, output, matyaml>>
            ELSE IF st.null
            THEN Crash /\ UNCHANGED <<input, output, matyaml>>
            ELSE /\ input' = st.input
                 /\ output' = st.output
                 /\ matyaml' = st.matyaml
                 /\ pc' = "Load"
                 /\ UNCHANGED exitCode
    /\ UNCHANGED <<ndebug, returned, files, m_pScene, meshI, pMesh, model, boneVars, packVars>>

\* importer.ReadFile(filename, flag): no scene, or a scene of up to MaxMeshes
\* meshes, read from it as the loop of Load reaches them
ReadFile(filename) ==
    {NullObject} \cup
    (IF filename = "" THEN {}
     ELSE { [mNumMeshes |-> n, mMaterials |-> SceneMaterials] : n \in 0..MaxMeshes })

\* MeshLoader::Load up to its loop, and main's answer when it returns false
LoadBegin ==
    /\ pc = "Load"
    /\ LET filename == input
       IN  IF filename = NullString
           THEN /\ returned' = [returned EXCEPT !.Load = "false"]
                /\ Exit(-1)
                /\ UNCHANGED <<m_pScene, meshI>>
           ELSE \E scene \in ReadFile(filename) :
                /\ m_pScene' = scene
                /\ IF scene = NullObject
                   THEN /\ returned' = [returned EXCEPT !.Load = "false"]
                        /\ Exit(-1)
                        /\ UNCHANGED meshI
                   ELSE /\ meshI' = 0
                        /\ pc' = "LoadMesh"
                        /\ UNCHANGED <<returned, exitCode>>
    /\ UNCHANGED <<ndebug, input, output, matyaml, files, pMesh, model, boneVars, packVars>>

\* the status of a process ended by abort()
Aborted == {3}

\* one iteration of the loop of Load enters ParseStaticMesh or
\* ParseSkinningMesh: the vertex loop, the bone loop and the face loop.  The
\* assert of the face loop ends the process where the build has it; where
\* NDEBUG removes it the loop reads three corners of every face.
ParseVertices ==
    /\ pc = "LoadMesh"
    /\ meshI < m_pScene.mNumMeshes
    /\ \E mesh \in SceneMeshes, garbage \in Indeterminate :
        /\ pMesh' = mesh
        /\ IF ~ndebug /\ ~AllTriangles(mesh)
           THEN /\ pc' = "crash"
                /\ exitCode' = Aborted
                /\ UNCHANGED <<skinned, dstMesh, dstMeshIndices>>
           ELSE \E stray \in StrayIndices(mesh) :
                LET b == BeforeOptimize(mesh, HasBones(mesh), garbage, stray)
                IN  /\ skinned' = HasBones(mesh)
                    /\ dstMesh' = b.dst
                    /\ dstMeshIndices' = b.indices
                    /\ pc' = "optimize"
                    /\ UNCHANGED exitCode
    /\ UNCHANGED <<ndebug, input, output, matyaml, returned, files, m_pScene, meshI, model,
                   boneVars, meshlets, meshletI, bounds>>

\* the rest of the parser: the optimisation block, where the run ends in the
\* write past remap's end or goes on, then the meshlet block and the push;
\* dstMesh and dstMeshIndices end with the call
ParseMeshlets ==
    /\ pc = "optimize"
    /\ LET o == Optimize(dstMesh, dstMeshIndices)
           dst == [dstMesh EXCEPT !.Vertices = o.Vertices]
       IN  \/ /\ o.overflow
              /\ Crash
              /\ UNCHANGED <<model, meshI, dstMesh, dstMeshIndices>>
           \/ /\ \E ms \in BuildMeshlets(o.dstMeshIndices, Len(dst.Vertices)) :
                   model' = PushMesh(model, PackMeshlets(dst, ms, 1), skinned)
              /\ meshI' = meshI + 1
              /\ dstMesh' = NewMesh(Word(0))
              /\ dstMeshIndices' = <<>>
              /\ pc' = "LoadMesh"
              /\ UNCHANGED exitCode
    /\ UNCHANGED <<ndebug, input, output, matyaml, returned, files, m_pScene, pMesh, boneVars,
                   skinned, meshlets, meshletI, bounds>>

\* the end of Load: FreeScene, return true
LoadEnd ==
    /\ pc = "LoadMesh"
    /\ meshI >= m_pScene.mNumMeshes
    /\ m_pScene' = NullObject
    /\ returned' = [returned EXCEPT !.Load = "true"]
    /\ pc' = "export"
    /\ UNCHANGED <<ndebug, input, output, matyaml, exitCode, files, meshI, pMesh, model, boneVars, packVars>>

\* main: the material export; ExportMaterialYaml returns false when fopen_s fails
Export ==
    /\ pc = "export"
    /\ IF matyaml = ""
       THEN /\ pc' = "save"
            /\ UNCHANGED <<exitCode, returned, files>>
       ELSE \E opened \in BOOLEAN :
            /\ returned' = [returned EXCEPT !.ExportMaterialYaml = IF opened THEN "true" ELSE "false"]
            /\ IF opened
               THEN /\ files' = files \cup {matyaml}
                    /\ pc' = "save"
                    /\ UNCHANGED exitCode
               ELSE /\ Exit(-1)
                    /\ UNCHANGED files
    /\ UNCHANGED <<ndebug, input, output, matyaml, m_pScene, meshI, pMesh, model, boneVars, packVars>>

\* main: asdx::SaveModel(output, model) and the return
Save ==
    /\ pc = "save"
    /\ \E saved \in (IF output = "" THEN {FALSE} ELSE BOOLEAN) :
        /\ returned' = [returned EXCEPT !.SaveModel = IF saved THEN "true" ELSE "false"]
        /\ IF saved
           THEN files' = files \cup {output} /\ Exit(0)
           ELSE UNCHANGED files /\ Exit(-1)
    /\ UNCHANGED <<ndebug, input, output, matyaml, m_pScene, meshI, pMesh, model, boneVars, packVars>>

EmptyModel == [StaticMeshes |-> <<>>, SkinningMeshes |-> <<>>]

BonesIdle ==
    /\ vertex = <<>>
    /\ boneI = 0
    /\ weightJ = 0
    /\ mNumBones = 0
    /\ mNumWeights = 0
    /\ weight = NullObject
    /\ arrived = <<>>

PackIdle ==
    /\ skinned = FALSE
    /\ dstMesh = NewMesh(Word(0))
    /\ dstMeshIndices = <<>>
    /\ meshlets = <<>>
    /\ meshletI = 0
    /\ bounds = NullObject

MainIdle ==
    /\ ndebug \in BOOLEAN
    /\ input = ""
    /\ output = ""
    /\ matyaml = ""
    /\ exitCode = {}
    /\ returned = NoResults
    /\ files = {}
    /\ m_pScene = NullObject
    /\ meshI = 0
    /\ pMesh = NullObject
    /\ model = EmptyModel

Init ==
    /\ pc = "main"
    /\ MainIdle
    /\ BonesIdle
    /\ PackIdle

Next ==
    \/ Main
    \/ LoadBegin
    \/ ParseVertices
    \/ ParseMeshlets
    \/ LoadEnd
    \/ Export
    \/ Save

Spec == Init /\ [][Next]_vars

-----------------------------------------------------------------------------
(* The bone loop of ParseSkinningMesh, one contribution at a time *)

Weights == 0..MaxWeight

\* a skinned mesh of nv vertices whose bones are read as the loop reaches them
SkinMesh(nv) == MakeMesh(nv, FALSE, TRUE, TRUE, 0, <<>>, 0)

\* line 318 is reached: the vertices are encoded, every slot is zero
InitBones ==
    /\ pc = "bones"
    /\ MainIdle
    /\ PackIdle
    /\ \E nv \in 1..MaxSkinVerts :
        /\ vertex = EncodeVertices(SkinMesh(nv), TRUE)
        /\ arrived = [i \in 1..nv |-> 0]
    /\ boneI = 0
    /\ weightJ = 0
    /\ mNumBones \in 1..MaxBones
    /\ mNumWeights \in 0..MaxWeights
    /\ weight = NullObject

\* one iteration of the weight loop
BoneWeight ==
    /\ pc = "bones"
    /\ boneI < mNumBones
    /\ weightJ < mNumWeights
    /\ \E id \in 0..(Len(vertex) - 1), boneWeight \in Weights :
        /\ weight' = [mVertexId |-> id, mWeight |-> boneWeight]
        /\ vertex' = [vertex EXCEPT ![id + 1] = AssignBone(@, BoneIndexOf(boneI), boneWeight)]
        /\ arrived' = [arrived EXCEPT ![id + 1] = IF boneWeight # 0 THEN @ + 1 ELSE @]
    /\ weightJ' = weightJ + 1
    /\ UNCHANGED <<boneI, mNumBones, mNumWeights, mainVars, packVars>>

\* the weight loop of bone i ends: the next bone, if there is one
NextBone ==
    /\ pc = "bones"
    /\ boneI < mNumBones
    /\ weightJ >= mNumWeights
    /\ boneI' = boneI + 1
    /\ weightJ' = 0
    /\ mNumWeights' \in 0..MaxWeights
    /\ UNCHANGED <<vertex, mNumBones, weight, arrived, mainVars, packVars>>

NextBones ==
    \/ BoneWeight
    \/ NextBone

SpecBones == InitBones /\ [][NextBones]_vars

-----------------------------------------------------------------------------
(* The meshlet block of both parsers, one meshlet at a time *)

\* index buffers: n triangles without a shared vertex; n triangles over four
\* vertices; a strip of DenseStrip triangles followed by triangles over its
\* first four vertices
Unindexed(n) == [k \in 1..(3 * n) |-> k - 1]

Repeated(n) == [k \in 1..(3 * n) |-> (((k - 1) \div 3) + ((k - 1) % 3)) % 4]

Dense(n) ==
    [k \in 1..(3 * n) |->
        LET t == (k - 1) \div 3
            c == (k - 1) % 3
        IN  IF t < DenseStrip THEN t + c ELSE (t + c) % 4]

IndexBuffers ==
    { Unindexed(n) : n \in 1..MaxTris } \cup { Repeated(n) : n \in 1..MaxTris }
        \cup { Unindexed(BigUnindexed), Dense(BigDense) }

\* the vertices an index buffer refers to
VerticesFor(indices, isSkinning) ==
    LET nv == 1 + CHOOSE m \in Range(indices) : \A x \in Range(indices) : x <= m
    IN  EncodeVertices(MakeMesh(nv, FALSE, TRUE, TRUE, 0, <<>>, 0), isSkinning)

\* line 203 / 479 is reached with an index buffer that is not empty
InitPack ==
    /\ pc = "meshlets"
    /\ ndebug \in BOOLEAN
    /\ input = "f"
    /\ output = "f"
    /\ matyaml = ""
    /\ exitCode = {}
    /\ returned = NoResults
    /\ files = {}
    /\ m_pScene = [mNumMeshes |-> 1, mMaterials |-> SceneMaterials]
    /\ meshI = 0
    /\ pMesh = NullObject
    /\ model = EmptyModel
    /\ BonesIdle
    /\ skinned \in BOOLEAN
    /\ dstMeshIndices \in IndexBuffers
    /\ \E garbage \in Indeterminate :
        dstMesh = [NewMesh(garbage) EXCEPT !.Vertices = VerticesFor(dstMeshIndices, skinned)]
    /\ meshlets = <<>>
    /\ meshletI = 0
    /\ bounds = NullObject

\* the meshlets are built
Meshlets ==
    /\ pc = "meshlets"
    /\ meshlets' \in BuildMeshlets(dstMeshIndices, Len(dstMesh.Vertices))
    /\ meshletI' = 0
    /\ pc' = "pack"
    /\ UNCHANGED <<ndebug, input, output, matyaml, exitCode, returned, files, m_pScene, meshI, pMesh,
                   model, boneVars, skinned, dstMesh, dstMeshIndices, bounds>>

\* one iteration of the loop over meshlets
Pack ==
    /\ pc = "pack"
    /\ meshletI < Len(meshlets)
    /\ LET meshlet == meshlets[meshletI + 1]
       IN  /\ dstMesh' = PackMeshlet(dstMesh, meshlet)
           /\ bounds' = meshopt_computeMeshletBounds(meshlet)
    /\ meshletI' = meshletI + 1
    /\ UNCHANGED <<mainVars, boneVars, skinned, dstMeshIndices, meshlets>>

\* the loop is over: the record is pushed
Push ==
    /\ pc = "pack"
    /\ meshletI >= Len(meshlets)
    /\ model' = PushMesh(model, dstMesh, skinned)
    /\ pc' = "parsed"
    /\ UNCHANGED <<ndebug, input, output, matyaml, exitCode, returned, files, m_pScene, meshI, pMesh,
                   boneVars, packVars>>

NextPack ==
    \/ Meshlets
    \/ Pack
    \/ Push

SpecPack == InitPack /\ [][NextPack]_vars

-----------------------------------------------------------------------------
(* Properties of main and of Load *)

\* the record the parser pushed for pMesh
PushedRecord ==
    IF HasBones(pMesh)
    THEN model.SkinningMeshes[Len(model.SkinningMeshes)]
    ELSE model.StaticMeshes[Len(model.StaticMeshes)]

\* pMesh has been parsed and its record pushed
Pushed == pc = "LoadMesh" /\ pMesh # NullObject

\* one triangle over 3 different positions, no bones, texcoord channel 0 only
SingleTriangle(mesh) ==
    /\ mesh.mNumVertices = 3
    /\ Cardinality(Range(mesh.mVertices)) = 3
    /\ ~HasBones(mesh)
    /\ mesh.mNumFaces = 1
    /\ Cardinality(Range(mesh.mFaces[1].mIndices)) = 3
    /\ HasTextureCoords(mesh, 0)
    /\ \A c \in 1..3 : ~HasTextureCoords(mesh, c)

\* the run is past the parser's call for a scene that is one single triangle
SingleTriangleParsed ==
    /\ pc \in {"LoadMesh", "crash"}
    /\ m_pScene # NullObject
    /\ m_pScene.mNumMeshes = 1
    /\ pMesh # NullObject
    /\ SingleTriangle(pMesh)

\* C3: converting a scene of one mesh that is a single triangle (3 different
\* positions, no bones, one texcoord channel) yields one mesh record with 3
\* vertices, exactly 1 meshlet, of VertexCount 3, and 1 primitive.
C3_SingleTriangle ==
    SingleTriangleParsed =>
        /\ Len(model.StaticMeshes) = 1
        /\ Len(model.SkinningMeshes) = 0
        /\ Len(model.StaticMeshes[1].Vertices) = 3
        /\ Len(model.StaticMeshes[1].Meshlets) = 1
        /\ model.StaticMeshes[1].Meshlets[1].VertexCount = 3
        /\ Len(model.StaticMeshes[1].Primitives) = 1

\* the vertices built from pMesh: dstMesh's in the parser, the record's after
BuiltVertices == IF pc = "optimize" THEN dstMesh.Vertices ELSE PushedRecord.Vertices

TexCoordOf(v, c) ==
    CASE c = 0 -> v.TexCoord0
      [] c = 1 -> v.TexCoord1
      [] c = 2 -> v.TexCoord2
      [] c = 3 -> v.TexCoord3

ColorChannel(vs) == [i \in DOMAIN vs |-> vs[i].Color]
TexCoordChannel(vs, c) == [i \in DOMAIN vs |-> TexCoordOf(vs[i], c)]

\* C6 (as the code has it): for a source mesh without vertex colours every
\* vertex built from it carries opaque white, 255 in each of the 4 channels,
\* and for an absent texcoord channel every vertex carries the encoded
\* coordinate (0, 0): the record has no channel that could be empty.
C6_MissingChannelDefault ==
    (pc = "optimize" \/ Pushed) =>
        \A i \in DOMAIN BuiltVertices :
            /\ ~HasVertexColors(pMesh) => BuiltVertices[i].Color = <<255, 255, 255, 255>>
            /\ \A c \in 0..3 :
                ~HasTextureCoords(pMesh, c) => TexCoordOf(BuiltVertices[i], c) = <<0, 0>>

\* the parser has encoded 3 vertices of a mesh without colours and texcoords
C6_Witness ==
    /\ pc = "optimize"
    /\ ~HasVertexColors(pMesh)
    /\ ~HasTextureCoords(pMesh, 0)
    /\ Len(dstMesh.Vertices) = 3

\* C6 (as stated): for a source mesh without vertex colours, and likewise
\* for an absent texcoord channel, the mesh record holds no data of that
\* channel for any vertex: the channel is empty, never filled with a default.
C6_MissingChannelEmpty ==
    (pc = "optimize" \/ Pushed) =>
        /\ ~HasVertexColors(pMesh) => ColorChannel(BuiltVertices) = <<>>
        /\ \A c \in 0..3 :
            ~HasTextureCoords(pMesh, c) => TexCoordChannel(BuiltVertices, c) = <<>>

\* C8: a mesh record appended to the model carries the hash of its
\* material's name when the material has one, its mMaterialIndex otherwise.
C8_MaterialHash ==
    Pushed => PushedRecord.MaterialHash = MatHash(m_pScene, pMesh)

\* the process has ended
Ended == exitCode # {}

\* C9: the exit code is 0 when Load and SaveModel both succeed, and it is
\* not 0 when the input path is missing, Load returns false, the requested
\* material export fails or SaveModel fails.
C9_ExitCode ==
    Ended =>
        /\ (returned.Load = "true" /\ returned.SaveModel = "true") => exitCode = {0}
        /\ (\/ input = ""
            \/ returned.Load = "false"
            \/ returned.ExportMaterialYaml = "false"
            \/ returned.SaveModel = "false") => exitCode # {0}

\* C10: SaveModel is called only after Load returned true and, with a
\* material YAML path, after ExportMaterialYaml returned true; after a step
\* that failed no later step runs; and when the process reports a failure
\* no file has been written.
C10_NoOutputOnFailure ==
    /\ returned.SaveModel # NONE =>
        /\ returned.Load = "true"
        /\ matyaml # "" => returned.ExportMaterialYaml = "true"
    /\ returned.Load = "false" =>
        returned.ExportMaterialYaml = NONE /\ returned.SaveModel = NONE
    /\ returned.ExportMaterialYaml = "false" => returned.SaveModel = NONE
    /\ (Ended /\ exitCode # {0}) => files = {}

-----------------------------------------------------------------------------
(* Properties of the bone loop *)

\* the step is an iteration of the weight loop
WeightStep == weightJ' = weightJ + 1

ZeroSlots(W) == {k \in 1..4 : W[k] = 0}
FirstZeroSlot(W) == CHOOSE k \in ZeroSlots(W) : \A j \in ZeroSlots(W) : k <= j

\* the slot of least weight, the lowest one on a tie
LeastSlot(W) == CHOOSE k \in 1..4 : \A j \in 1..4 : W[k] < W[j] \/ (W[k] = W[j] /\ k <= j)

\* slot k takes (boneIndex, boneWeight), nothing else of the vertex changes
StoredIn(old, new, k, boneIndex, boneWeight) ==
    new = [old EXCEPT !.BoneIndex[k] = boneIndex, !.BoneWeights[k] = boneWeight]

\* C1: a contribution processed while one of the vertex's 4 slots has weight
\* 0 is stored in the first such slot: the slot's bone index and the same
\* slot's weight take the incoming values, every other slot is unchanged.
C1_FirstZeroSlot ==
    [][WeightStep =>
        LET id == weight'.mVertexId + 1
            W == vertex[id].BoneWeights
        IN  ZeroSlots(W) # {} =>
                StoredIn(vertex[id], vertex'[id], FirstZeroSlot(W),
                         BoneIndexOf(boneI), weight'.mWeight)]_vars

\* C2: a contribution arriving when the vertex's 4 slots are full, that is
\* after 4 contributions of non-zero weight to the vertex, is compared with
\* the slot of least weight (the lowest on a tie): it is discarded, all 4
\* slots unchanged, when its weight is less than or equal to that minimum,
\* and overwrites that slot's bone index and weight when strictly greater.
C2_ReplaceMinimum ==
    [][WeightStep =>
        LET id == weight'.mVertexId + 1
            W == vertex[id].BoneWeights
            k == LeastSlot(W)
        IN  arrived[id] >= 4 =>
                IF weight'.mWeight <= W[k]
                THEN vertex'[id] = vertex[id]
                ELSE StoredIn(vertex[id], vertex'[id], k,
                              BoneIndexOf(boneI), weight'.mWeight)]_vars

-----------------------------------------------------------------------------
(* Properties of the meshlet block *)

\* the raw corners of the triangles of the first n meshlets, in order
RECURSIVE RawTriangles(_, _)
RawTriangles(ms, n) ==
    IF n = 0 THEN <<>>
    ELSE RawTriangles(ms, n - 1) \o SubSeq(ms[n].indices, 1, ms[n].triangle_count)

\* the record pushed by the meshlet block
PackedRecord ==
    IF skinned
    THEN model.SkinningMeshes[Len(model.SkinningMeshes)]
    ELSE model.StaticMeshes[Len(model.StaticMeshes)]

\* C4: for every meshlet of the optimizer and every triangle of it with raw
\* corners (c0, c1, c2), the primitive appended to Primitives has (Index0,
\* Index1, Index2) = (c1, c0, c2), in the static and in the skinned path,
\* and the primitives are appended in the order of the triangles.
C4_Winding ==
    pc \in {"pack", "parsed"} =>
        LET raw == RawTriangles(meshlets, meshletI)
            P == dstMesh.Primitives
        IN  /\ Len(P) = Len(raw)
            /\ \A t \in DOMAIN raw :
                /\ P[t].Index0 = raw[t][2]
                /\ P[t].Index1 = raw[t][1]
                /\ P[t].Index2 = raw[t][3]
            /\ pc = "parsed" => PackedRecord.Primitives = P

\* a skinned record of several meshlets is pushed, with a primitive whose
\* corners are all different
C4_Witness ==
    /\ pc = "parsed"
    /\ skinned
    /\ Len(meshlets) >= 2
    /\ \E t \in DOMAIN PackedRecord.Primitives :
        LET p == PackedRecord.Primitives[t]
        IN  Cardinality({p.Index0, p.Index1, p.Index2}) = 3

\* C5: every ResMeshlet appended to a mesh record, static or skinned, has
\* VertexCount <= 64 and PrimitiveCount <= 124.
C5_MeshletBound ==
    /\ \A k \in DOMAIN dstMesh.Meshlets :
        /\ dstMesh.Meshlets[k].VertexCount <= 64
        /\ dstMesh.Meshlets[k].PrimitiveCount <= 124
    /\ \A r \in Range(model.StaticMeshes) \cup Range(model.SkinningMeshes) :
        \A k \in DOMAIN r.Meshlets :
            /\ r.Meshlets[k].VertexCount <= 64
            /\ r.Meshlets[k].PrimitiveCount <= 124

\* a record is pushed with a meshlet of 64 vertices and 124 primitives
C5_Witness ==
    /\ pc = "parsed"
    /\ \E k \in DOMAIN PackedRecord.Meshlets :
        /\ PackedRecord.Meshlets[k].VertexCount = 64
        /\ PackedRecord.Meshlets[k].PrimitiveCount = 124

\* C7: the mesh record holds as many culling descriptors as meshlets, the
\* i-th one computed from the i-th meshlet's bounds in the iteration that
\* appends the meshlet's ranges.
C7_CullingInfoPerMeshlet ==
    pc \in {"pack", "parsed"} =>
        /\ Len(dstMesh.CullingInfos) = meshletI
        /\ Len(dstMesh.CullingInfos) = Len(dstMesh.Meshlets)
        /\ \A i \in DOMAIN dstMesh.CullingInfos :
            dstMesh.CullingInfos[i] = meshopt_computeMeshletBounds(meshlets[i])

-----------------------------------------------------------------------------
(* Properties of the loop of Load *)

\* pMesh has no vertex or no face
EmptyMesh == pMesh.mNumVertices = 0 \/ pMesh.mNumFaces = 0

\* C11: a source mesh with zero vertices or zero faces is skipped: the
\* parser's call appends no record for it to StaticMeshes or SkinningMeshes
\* and the loop of Load goes on with the next mesh.
C11_EmptyMeshSkipped ==
    [][(pc = "optimize" /\ EmptyMesh) =>
        /\ model' = model
        /\ pc' = "LoadMesh"
        /\ meshI' = meshI + 1]_vars

\* corner k (1-based) of the flattened faces is a corner its face has
CornerExists(mesh, k) == ((k - 1) % 3) + 1 <= mesh.mFaces[((k - 1) \div 3) + 1].mNumIndices

\* C12: a source mesh with a face whose corner count is not 3 makes the
\* conversion fail: Load reports failure to its caller and main ends with
\* its error status, no record is produced from the mesh, and no index is
\* read from a corner position the face does not have.
C12_NonTriangleFails ==
    (pMesh # NullObject /\ ~AllTriangles(pMesh)) =>
        /\ returned.Load = "false"
        /\ exitCode = {-1}
        /\ Len(model.StaticMeshes) + Len(model.SkinningMeshes) = meshI
        /\ \A k \in DOMAIN dstMeshIndices : CornerExists(pMesh, k)

-----------------------------------------------------------------------------
(* Properties of the meshlets' ranges *)

\* the sum of VertexCount, of PrimitiveCount, over the first n meshlets
RECURSIVE VertexTotal(_, _)
VertexTotal(ms, n) == IF n = 0 THEN 0 ELSE VertexTotal(ms, n - 1) + ms[n].VertexCount

RECURSIVE PrimitiveTotal(_, _)
PrimitiveTotal(ms, n) == IF n = 0 THEN 0 ELSE PrimitiveTotal(ms, n - 1) + ms[n].PrimitiveCount

Tiled(r) ==
    /\ \A k \in DOMAIN r.Meshlets :
        /\ r.Meshlets[k].VertexOffset = VertexTotal(r.Meshlets, k - 1)
        /\ r.Meshlets[k].PrimitiveOffset = PrimitiveTotal(r.Meshlets, k - 1)
    /\ Len(r.Indices) = VertexTotal(r.Meshlets, Len(r.Meshlets))
    /\ Len(r.Primitives) = PrimitiveTotal(r.Meshlets, Len(r.Meshlets))

\* C13: at every iteration of the loop over meshlets and at its end, each
\* meshlet's VertexOffset is the sum of VertexCount of the earlier meshlets
\* of the mesh and its PrimitiveOffset the sum of their PrimitiveCount,
\* Indices.size() is the sum of all VertexCount and Primitives.size() the
\* sum of all PrimitiveCount.
C13_MeshletsTile ==
    /\ Tiled(dstMesh)
    /\ \A r \in Range(model.StaticMeshes) \cup Range(model.SkinningMeshes) : Tiled(r)

\* a record of 3 or more meshlets is pushed, the last one at offsets that
\* differ from each other
C13_Witness ==
    /\ pc = "parsed"
    /\ Len(PackedRecord.Meshlets) >= 3
    /\ LET m == PackedRecord.Meshlets[Len(PackedRecord.Meshlets)]
       IN  m.VertexOffset > 0 /\ m.PrimitiveOffset > 0 /\ m.VertexOffset # m.PrimitiveOffset

-----------------------------------------------------------------------------
(* Properties of Load as a whole *)

RecordCount(mdl) == Len(mdl.StaticMeshes) + Len(mdl.SkinningMeshes)

\* list has one more element than before, after the ones it had
GrewByOne(before, after) ==
    /\ Len(after) = Len(before) + 1
    /\ SubSeq(after, 1, Len(before)) = before

\* the step in which a parser is entered, returns; in which Load returns
ParserEntered == pc = "LoadMesh" /\ pc' = "optimize"
ParserReturns == pc = "optimize" /\ pc' = "LoadMesh"
LoadReturnsTrue == returned.Load # "true" /\ returned'.Load = "true"
LoadReturnsFalse == returned.Load # "false" /\ returned'.Load = "false"

\* C14: Load processes the meshes one at a time in scene order, each
\* completely before the next: a parser is entered for mesh i when the
\* model holds the i records of the meshes before it, and its return appends
\* exactly one record, at the end of SkinningMeshes if and only if the mesh
\* has bones and at the end of StaticMeshes otherwise; nothing else changes
\* the model.  When Load returns true there is one record per scene mesh and
\* m_pScene is null again; when it returns false the model is unchanged.
C14_OneRecordPerMesh ==
    [][/\ ParserEntered => (RecordCount(model) = meshI /\ model' = model)
       /\ ParserReturns =>
            /\ meshI' = meshI + 1
            /\ IF HasBones(pMesh)
               THEN /\ GrewByOne(model.SkinningMeshes, model'.SkinningMeshes)
                    /\ model'.StaticMeshes = model.StaticMeshes
               ELSE /\ GrewByOne(model.StaticMeshes, model'.StaticMeshes)
                    /\ model'.SkinningMeshes = model.SkinningMeshes
       /\ model' # model => ParserReturns
       /\ LoadReturnsTrue =>
            /\ RecordCount(model') = m_pScene.mNumMeshes
            /\ m_pScene' = NullObject
       /\ LoadReturnsFalse => (model' = model /\ model = EmptyModel)]_vars

\* Load has returned true for a scene of a skinned and another mesh
C14_Witness ==
    /\ returned.Load = "true"
    /\ m_pScene = NullObject
    /\ Len(model.SkinningMeshes) >= 1
    /\ RecordCount(model) = 2

====
